---- MODULE Spec2Model ----
(***************************************************************************)
(* Widget inserter: the placement engine (insertWidgetHtml), the           *)
(* idempotency guard (countWidgets), the state store (loadState /          *)
(* saveState), the single-article driver (runOne.ts) and the batch         *)
(* orchestrator (main / processPost).                                      *)
(*                                                                         *)
(* An HTML string is modelled by the node sequence it parses to.  A node   *)
(* is a record [t, v, g, kids]:                                            *)
(*   t = "p"       a paragraph of the article                              *)
(*   t = "txt"     any other content (heading, text, image)                *)
(*   t = "start"   the comment <!-- ai-cta:start id=v -->                  *)
(*   t = "lead"    <p class="ai-cta-text">v</p>, a p element               *)
(*   t = "wid"     the embed HTML of catalog widget v (one signature)      *)
(*   t = "sig"     a foreign embed carrying the widget signature           *)
(*   t = "end"     the comment <!-- ai-cta:end -->                         *)
(*   t = "sc"      a [contact-form-7 ...] shortcode                        *)
(*   t = "cf"      an element of class wpcf7                               *)
(*   t = "pc"      the comment <!-- /wp:post-content -->                   *)
(*   t = "article" an <article> element whose children are kids            *)
(* g is a ghost field of a "start" node: the position argument of the      *)
(* insertWidgetHtml call that built it.  It is not part of the HTML text   *)
(* and is the same function of the call for every node a call builds.      *)
(* A document is [wrap, nodes]: wrap says that the text carries a <body>   *)
(* element around the nodes.                                               *)
(***************************************************************************)
EXTENDS Integers, Sequences, FiniteSets, TLC

Leaf(t, v) == [t |-> t, v |-> v, g |-> "-", kids |-> <<>>]

Article(kids) == [t |-> "article", v |-> "-", g |-> "-", kids |-> kids]

Html(nodes) == [wrap |-> FALSE, nodes |-> nodes]

BodyHtml(nodes) == [wrap |-> TRUE, nodes |-> nodes]

\* ------------------------------------------------------------ sequences

InsertAfter(s, i, b) == SubSeq(s, 1, i) \o b \o SubSeq(s, i + 1, Len(s))

RECURSIVE Flatten(_)
\* The nodes of a sequence in document order, article children included.
Flatten(nodes) ==
  IF nodes = <<>> THEN <<>>
  ELSE LET h == Head(nodes)
       IN (IF h.t = "article" THEN <<h>> \o h.kids ELSE <<h>>) \o Flatten(Tail(nodes))

CountOf(nodes, types) ==
  Cardinality({i \in 1..Len(Flatten(nodes)) : Flatten(nodes)[i].t \in types})

\* Removes every node of the given types, at top level and inside articles.
StripNodes(nodes, types) ==
  LET kept == SelectSeq(nodes, LAMBDA n : n.t \notin types)
  IN [i \in 1..Len(kept) |->
        IF kept[i].t = "article"
        THEN [kept[i] EXCEPT !.kids = SelectSeq(@, LAMBDA k : k.t \notin types)]
        ELSE kept[i]]

\* ------------------------------------------------------------ state

VARIABLES
  parser,         \* the parser cheerio.load uses in this build
  cap,            \* the bound of the orchestrator's while loop (600 in the source)
  catalogOk,      \* widgets.json exists and parses
  response,       \* the message content the model returned to a pickWidgetByContent call
  decision,       \* what that pickWidgetByContent call returned or that it threw
  args,           \* the arguments of an insertWidgetHtml call
  ret,            \* the InsertResult of that call
  body,           \* content source: the stored body of each article
  updates,        \* history: per article, the number of updatePostContent calls
  sent,           \* history: the kinds of updatePostContent calls made
  failures,       \* history: some orchestrator task of some run has thrown
  disk,           \* data/state.json: the persisted processed ids
  runs,           \* history: number of driver runs started
  driver,         \* "none", "batch" (the orchestrator) or "one" (runOne)
  pc,             \* position of the running driver
  dryRun,         \* --dry-run of the running driver
  limit,          \* --limit of the orchestrator run
  par,            \* --par of the orchestrator run
  processed,      \* the orchestrator's in-memory Set processed
  loaded,         \* history: the set loadState returned at the start of the run
  page,           \* the orchestrator's page counter
  totalProcessed, \* the orchestrator's totalProcessed counter
  stop,           \* the orchestrator's stop flag
  batches,        \* the batches of the current page not yet dispatched
  batch,          \* the ids of the batch in flight
  task,           \* the tasks of the batch in flight: id -> locals and position
  one,            \* the locals of the running runOne
  report,         \* history: per article, the outcome of its last finished task
  attempts,       \* history: per article, the tasks started for it in this run
  finished        \* history: ids of the batches of this run that have completed

\* What no step of a driver changes.
fixed == <<parser, cap, catalogOk, response, decision, args, ret>>

vars == <<fixed, body, updates, sent, failures, disk, runs, driver, pc, dryRun, limit, par,
          processed, loaded, page, totalProcessed, stop, batches, batch, task,
          one, report, attempts, finished>>

\* ------------------------------------------------------------ placement.ts

\* The text of a lead paragraph that is a contact-form shortcode.
ShortcodeText == "[contact-form-7 id=1]"

\* The regular expression of line 36 also empties a shortcode that is the text
\* of a lead paragraph.
WithoutShortcodeText(nodes) ==
  LET Clean(n) == IF n.t = "lead" /\ n.v = ShortcodeText THEN [n EXCEPT !.v = ""] ELSE n
  IN [i \in 1..Len(nodes) |->
        IF nodes[i].t = "article"
        THEN [nodes[i] EXCEPT !.kids = [k \in 1..Len(@) |-> Clean(@[k])]]
        ELSE Clean(nodes[i])]

\* html.replace(/\[contact-form-7[^\]]*\]/gi, ''), $('.wpcf7').remove(), and
\* $.root().html(): parse5 serializes the document it built, <body> included.
removeContactFormShortcodesAndForms(html) ==
  [wrap |-> html.wrap \/ parser = "parse5",
   nodes |-> WithoutShortcodeText(StripNodes(html.nodes, {"sc", "cf"}))]

countWidgets(html) == CountOf(html.nodes, {"wid", "sig"})

cleanWpPostContentMarkers(html) == [html EXCEPT !.nodes = StripNodes(@, {"pc"})]

IsP(n) == n.t \in {"p", "lead"}

HasP(nodes) == \E i \in 1..Len(nodes) : IsP(nodes[i])

IsArticle(n) == n.t = "article"

IsArticleWithP(n) == n.t = "article" /\ HasP(n.kids)

HasArticle(nodes) == \E i \in 1..Len(nodes) : IsArticle(nodes[i])

\* Mutant of FirstP: the last paragraph is taken.
LastP(nodes) == CHOOSE i \in 1..Len(nodes) : IsP(nodes[i]) /\ \A j \in (i + 1)..Len(nodes) : ~IsP(nodes[j])

\* .first(): the first match in document order.
FirstP(nodes) == CHOOSE i \in 1..Len(nodes) : IsP(nodes[i]) /\ \A j \in 1..(i - 1) : ~IsP(nodes[j])

FirstArticle(nodes) ==
  CHOOSE i \in 1..Len(nodes) : IsArticle(nodes[i]) /\ \A j \in 1..(i - 1) : ~IsArticle(nodes[j])

FirstArticleWithP(nodes) ==
  CHOOSE i \in 1..Len(nodes) :
    IsArticleWithP(nodes[i]) /\ \A j \in 1..(i - 1) : ~IsArticleWithP(nodes[j])

\* The block of line 76; g records the position argument of the call.
Block(widgetId, widgetHtml, ctaText, position) ==
  SelectSeq(<<[Leaf("start", widgetId) EXCEPT !.g = position], Leaf("lead", ctaText)>>
              \o widgetHtml \o <<Leaf("end", "-")>>,
            LAMBDA n : n.t # "pc")

\* Lines 80-120: the mutated tree and the container and method reported.
Placed(html, block, position) ==
  LET nodes == html.nodes
      hasBody == html.wrap \/ parser = "parse5"
  IN IF position = "top"
     THEN IF \E i \in 1..Len(nodes) : IsArticleWithP(nodes[i])
          THEN LET a == FirstArticleWithP(nodes)
                   k == FirstP(nodes[a].kids)
               IN [nodes |-> [nodes EXCEPT ![a].kids = InsertAfter(@, k, block)],
                   container |-> "article", method |-> "afterFirstP"]
          ELSE IF hasBody /\ HasP(nodes)
          THEN [nodes |-> InsertAfter(nodes, FirstP(nodes), block),
                container |-> "body", method |-> "afterFirstP"]
          ELSE IF HasArticle(nodes)
          THEN [nodes |-> [i \in 1..Len(nodes) |->
                             IF IsArticle(nodes[i])
                             THEN [nodes[i] EXCEPT !.kids = block \o @]
                             ELSE nodes[i]],
                container |-> "article", method |-> "prepend"]
          ELSE IF hasBody
          THEN [nodes |-> block \o nodes, container |-> "body", method |-> "prepend"]
          ELSE [nodes |-> block \o nodes, container |-> "root", method |-> "prepend"]
     ELSE IF HasArticle(nodes)
          THEN [nodes |-> [i \in 1..Len(nodes) |->
                             IF IsArticle(nodes[i])
                             THEN [nodes[i] EXCEPT !.kids = @ \o block]
                             ELSE nodes[i]],
                container |-> "article", method |-> "append"]
          ELSE IF hasBody
          THEN [nodes |-> nodes \o block, container |-> "body", method |-> "append"]
          ELSE [nodes |-> nodes \o block, container |-> "root", method |-> "append"]

\* Lines 125-133: the inner HTML of the first article, else of body, else of root.
Serialized(nodes) ==
  IF HasArticle(nodes)
  THEN Html(nodes[FirstArticle(nodes)].kids)
  ELSE Html(nodes)

insertWidgetHtml(html, widgetId, widgetHtml, ctaText, position) ==
  LET cleaned == cleanWpPostContentMarkers(removeContactFormShortcodesAndForms(html))
      placed == Placed(cleaned, Block(widgetId, widgetHtml, ctaText, position), position)
  IN [html |-> cleanWpPostContentMarkers(Serialized(placed.nodes)),
      placement |-> [container |-> placed.container, position |-> position,
                     method |-> placed.method]]

\* ------------------------------------------------------------ bounds and inputs

MaxRuns == 2

MaxLimit == 2

MaxPar == 2

NumPosts == 3

\* while (!stop && totalProcessed < 600)
TotalCap == 600

\* countWidgets(articleText) >= 2
WidgetCap == 2

PostIds == 1..NumPosts

\* widgets.json: one widget of each type; embed_html carries the signature once.
Catalog == {[id |-> "w1", type |-> "webinar"], [id |-> "l1", type |-> "lead_magnet"]}

EmbedHtml(widgetId) == <<Leaf("wid", widgetId)>>

CtaTexts == {"Click!"}

NoHtml == Html(<<>>)

\* ------------------------------------------------------------ JavaScript values

Str(html) == [kind |-> "string", val |-> html]

Obj(rec) == [kind |-> "object", val |-> rec]

\* a === b for a string a: an object is never equal to a string.
StrictEquals(a, b) == a.kind = "string" /\ b.kind = "string" /\ a.val = b.val

\* ------------------------------------------------------------ collaborators

\* getWidgetHtmlById: throws when the id is not in widgets.json.
WidgetKnown(widgetId) == \E w \in Catalog : w.id = widgetId

getWidgetHtmlById(widgetId) == [embed_html |-> EmbedHtml(widgetId)]

\* The results pickWidgetByContent can return for a widget list: the model is
\* free to name any id, placement_strategy went through normalizePlacementStrategy.
Decisions(widgets) ==
  [best_widget_id : {w.id : w \in widgets} \cup {"zz"},
   placement_strategy : {"top", "bottom"},
   cta_text : CtaTexts]

\* listPosts({ per_page, page }): the ids of one page of the source.
listPosts(perPage, pg) ==
  LET first == (pg - 1) * perPage + 1
      last == IF pg * perPage < NumPosts THEN pg * perPage ELSE NumPosts
  IN [i \in 1..(IF last >= first THEN last - first + 1 ELSE 0) |-> first + i - 1]

\* What the content source stores for an update: a string is stored as sent; for
\* any other payload the server either coerces it to its html or ignores it.
StoredAfter(old, payload, coerce) ==
  IF payload.kind = "string" THEN payload.val
  ELSE IF coerce THEN payload.val.html ELSE old

\* ------------------------------------------------------------ state store (index.ts)

\* The file is [valid, processed]: valid is FALSE for a missing or unparsable file.
\* loadState returns {} for such a file, and main takes state.processed || [].
loadState(file) == IF file.valid THEN file.processed ELSE {}

\* Mutant of saveState: an empty processed list is written.
saveStateStale(set) == [valid |-> TRUE, processed |-> {}]

\* saveState: the file is rewritten whole.
saveState(set) == [valid |-> TRUE, processed |-> set]

\* ------------------------------------------------------------ orchestrator (main)

NoDecision == [best_widget_id |-> "-", placement_strategy |-> "-", cta_text |-> "-"]

NoTask == [pc |-> "none", articleText |-> NoHtml, llmResult |-> NoDecision,
           newHtml |-> Str(NoHtml)]

NoOne == [postId |-> 0, articleText |-> NoHtml, webinarResult |-> NoDecision,
          finalHtml |-> NoHtml]

Idle == driver = "none"

\* Mutant of ToProcess: the filter on processed is lost.
ToProcessUnfiltered(posts, done, lim) ==
  SubSeq(posts, 1, IF Len(posts) < lim THEN Len(posts) ELSE lim)

\* posts.filter(p => !processed.has(p.id)).slice(0, limit)
ToProcess(posts, done, lim) ==
  LET left == SelectSeq(posts, LAMBDA id : id \notin done)
  IN SubSeq(left, 1, IF Len(left) < lim THEN Len(left) ELSE lim)

\* Mutant of Batches: the page is dispatched as one batch.
BatchesUnsplit(toProcess, p) == IF toProcess = <<>> THEN <<>> ELSE <<toProcess>>

\* for (i = 0; i < toProcess.length; i += par) batches.push(toProcess.slice(i, i + par))
Batches(toProcess, p) ==
  [b \in 1..((Len(toProcess) + p - 1) \div p) |->
     SubSeq(toProcess, (b - 1) * p + 1,
            IF b * p < Len(toProcess) THEN b * p ELSE Len(toProcess))]

Range(s) == {s[i] : i \in 1..Len(s)}

\* batch.map(async post => ...): every task of the batch starts with its getPost call.
Dispatched(b) == [id \in PostIds |-> IF id \in Range(b) THEN [NoTask EXCEPT !.pc = "get"] ELSE NoTask]

\* The process ends: nothing in memory survives it.
Exit(code) ==
  /\ driver' = "none"
  /\ pc' = code
  /\ dryRun' = dryRun
  /\ limit' = 1
  /\ par' = 1
  /\ processed' = {}
  /\ page' = 1
  /\ totalProcessed' = 0
  /\ stop' = FALSE
  /\ batches' = <<>>
  /\ batch' = {}
  /\ task' = [id \in PostIds |-> NoTask]
  /\ one' = NoOne

\* JSON.parse(fs.readFileSync('widgets.json')) throws when the catalog is missing
\* or unparsable.
CatalogLoads == catalogOk

\* The orchestrator starts: parseArgs, the catalog (line 35), loadState, and the
\* first listPosts call; when the catalog does not load main rejects at line 35
\* and the process exits with code 1.
StartBatch(dry, lim, p) ==
  /\ Idle
  /\ runs < MaxRuns
  /\ runs' = runs + 1
  /\ report' = [id \in PostIds |-> "none"]
  /\ attempts' = [id \in PostIds |-> 0]
  /\ finished' = {}
  /\ IF CatalogLoads
     THEN /\ driver' = "batch"
          /\ pc' = "list"
          /\ dryRun' = dry
          /\ limit' = lim
          /\ par' = p
          /\ processed' = loadState(disk)
          /\ loaded' = loadState(disk)
          /\ page' = 1
          /\ totalProcessed' = 0
          /\ stop' = FALSE
          /\ batches' = <<>>
          /\ batch' = {}
          /\ task' = [id \in PostIds |-> NoTask]
          /\ UNCHANGED one
     ELSE /\ Exit("exit1")
          /\ loaded' = {}
  /\ UNCHANGED <<fixed, body, updates, sent, failures, disk>>

\* Leaving the while loop: the saveState of line 73 and the end of main.
Finish ==
  /\ disk' = saveState(processed)
  /\ Exit("done")
  /\ UNCHANGED <<fixed, body, updates, sent, failures, runs, loaded, report, attempts>>

\* Promise.all(batch.map(...)) for the next batch: its tasks start.
Dispatch(bs) ==
  /\ batches' = Tail(bs)
  /\ batch' = Range(Head(bs))
  /\ task' = Dispatched(Head(bs))
  /\ attempts' = [id \in PostIds |-> IF id \in Range(Head(bs)) THEN attempts[id] + 1 ELSE attempts[id]]
  /\ pc' = "await"
  /\ UNCHANGED <<fixed, body, updates, sent, failures, disk, runs, driver, dryRun, limit, par,
                 processed, loaded, page, stop, one, report>>

\* listPosts returns: lines 44-52, up to the first Promise.all or out of the loop.
ListPosts ==
  /\ driver = "batch"
  /\ pc = "list"
  /\ LET posts == listPosts(limit, page)
         toProcess == ToProcess(posts, processed, limit)
     IN IF Len(posts) = 0 \/ Len(toProcess) = 0
        THEN Finish /\ UNCHANGED finished
        ELSE Dispatch(Batches(toProcess, par)) /\ UNCHANGED <<totalProcessed, finished>>

\* listPosts throws: main rejects and the process exits with code 1.
ListPostsFails ==
  /\ driver = "batch"
  /\ pc = "list"
  /\ Exit("exit1")
  /\ UNCHANGED <<fixed, body, updates, sent, failures, disk, runs, loaded, report, attempts, finished>>

\* ------------------------------------------------------------ processPost

\* Lines 22-23: the InsertResult object of insertWidgetHtml called with four
\* arguments: placement_strategy is passed as ctaText, position defaults to 'top'.
NewHtml(articleText, llmResult) ==
  Obj(insertWidgetHtml(articleText, llmResult.best_widget_id,
                       getWidgetHtmlById(llmResult.best_widget_id).embed_html,
                       llmResult.placement_strategy, "top"))

\* Line 24: articleText === newHtml
Unchanged(articleText, newHtml) == StrictEquals(Str(articleText), newHtml)

\* Mutant of WritesBack: the dry-run flag is not consulted.
WritesBackAlways(dry) == TRUE

\* Line 27: if (!dryRun)
WritesBack(dry) == ~dry

\* Mutant of AfterSuccess: the id of a completed task is not recorded.
AfterSuccessForgets(set, id) == set

\* Line 62: processed.add(post.id), after processPost returned.
AfterSuccess(set, id) == set \cup {id}

\* Mutant of AfterCatch: the catch block marks the id as processed too.
AfterCatchAdds(set, id) == set \cup {id}

\* Lines 63-65: the catch block only logs.
AfterCatch(set, id) == set

TaskFrame == UNCHANGED <<fixed, disk, runs, driver, pc, dryRun, limit, par, loaded, page,
                         totalProcessed, stop, batches, batch, one, attempts, finished>>

\* getPost returns: line 19-20, then the pickWidgetByContent call is made.
TaskGet(id) ==
  /\ driver = "batch"
  /\ task[id].pc = "get"
  /\ task' = [task EXCEPT ![id] = [@ EXCEPT !.pc = "llm", !.articleText = body[id]]]
  /\ UNCHANGED <<body, updates, sent, failures, processed, report>>
  /\ TaskFrame

\* pickWidgetByContent returns: lines 21-30 up to the updatePostContent call, or to
\* the return when nothing is written; a widget id not in the catalog throws.
TaskPick(id) ==
  /\ driver = "batch"
  /\ task[id].pc = "llm"
  /\ \E llmResult \in Decisions(Catalog) :
       IF ~WidgetKnown(llmResult.best_widget_id)
       THEN /\ task' = [task EXCEPT ![id] = [NoTask EXCEPT !.pc = "fail"]]
            /\ processed' = AfterCatch(processed, id)
            /\ report' = [report EXCEPT ![id] = "failed"]
            /\ failures' = TRUE
       ELSE LET newHtml == NewHtml(task[id].articleText, llmResult)
            IN IF Unchanged(task[id].articleText, newHtml)
               THEN /\ task' = [task EXCEPT ![id] = [NoTask EXCEPT !.pc = "ok"]]
                    /\ processed' = AfterSuccess(processed, id)
                    /\ report' = [report EXCEPT ![id] = "unchanged"]
                    /\ UNCHANGED failures
               ELSE IF WritesBack(dryRun)
               THEN /\ task' = [task EXCEPT ![id] = [@ EXCEPT !.pc = "upd",
                                                              !.llmResult = llmResult,
                                                              !.newHtml = newHtml]]
                    /\ UNCHANGED <<processed, report, failures>>
               ELSE /\ task' = [task EXCEPT ![id] = [NoTask EXCEPT !.pc = "ok"]]
                    /\ processed' = AfterSuccess(processed, id)
                    /\ report' = [report EXCEPT ![id] = "changed"]
                    /\ UNCHANGED failures
  /\ UNCHANGED <<body, updates, sent>>
  /\ TaskFrame

\* updatePostContent returns: the content source has stored the payload.
TaskUpdate(id) ==
  /\ driver = "batch"
  /\ task[id].pc = "upd"
  /\ \E coerce \in BOOLEAN :
       body' = [body EXCEPT ![id] = StoredAfter(@, task[id].newHtml, coerce)]
  /\ updates' = [updates EXCEPT ![id] = @ + 1]
  /\ sent' = sent \cup {[driver |-> "batch", dry |-> dryRun, kind |-> task[id].newHtml.kind]}
  /\ task' = [task EXCEPT ![id] = [NoTask EXCEPT !.pc = "ok"]]
  /\ processed' = AfterSuccess(processed, id)
  /\ report' = [report EXCEPT ![id] = "changed"]
  /\ UNCHANGED failures
  /\ TaskFrame

\* Mutant of TaskThrows: without the try/catch the rejection reaches Promise.all,
\* main rejects and the process exits with code 1.
TaskThrowsUncaught(id) ==
  /\ driver = "batch"
  /\ task[id].pc \in {"get", "llm", "upd"}
  /\ Exit("exit1")
  /\ report' = [report EXCEPT ![id] = "failed"]
  /\ failures' = TRUE
  /\ UNCHANGED <<fixed, body, updates, sent, disk, runs, loaded, attempts, finished>>

\* An awaited call of the task rejects (getPost, the model call or the update):
\* the catch block of the task's callback logs it.
TaskThrows(id) ==
  /\ driver = "batch"
  /\ task[id].pc \in {"get", "llm", "upd"}
  /\ task' = [task EXCEPT ![id] = [NoTask EXCEPT !.pc = "fail"]]
  /\ processed' = AfterCatch(processed, id)
  /\ report' = [report EXCEPT ![id] = "failed"]
  /\ failures' = TRUE
  /\ UNCHANGED <<body, updates, sent>>
  /\ TaskFrame

\* Mutant of CapReached: the counter is never compared with the bound.
CapNeverReached(total, bound) == FALSE

\* Lines 43 and 68: totalProcessed >= 600 ends the loops.
CapReached(total, bound) == total >= bound

\* The model call of a task rejects (or its answer does not normalize): the catch
\* block of the task's callback logs it.
ModelThrows(id) ==
  /\ task[id].pc = "llm"
  /\ TaskThrows(id)

\* Promise.all resolves: lines 67-72, up to the next Promise.all or listPosts call,
\* or to the end of main.
BatchDone ==
  /\ driver = "batch"
  /\ pc = "await"
  /\ \A id \in batch : task[id].pc \in {"ok", "fail"}
  /\ finished' = finished \cup batch
  /\ LET total == totalProcessed + Cardinality(batch)
     IN IF CapReached(total, cap)
        THEN Finish
        ELSE IF batches # <<>>
        THEN Dispatch(batches) /\ totalProcessed' = total
        ELSE /\ totalProcessed' = total
             /\ page' = page + 1
             /\ disk' = saveState(processed)
             /\ pc' = "list"
             /\ batch' = {}
             /\ task' = [id \in PostIds |-> NoTask]
             /\ UNCHANGED <<fixed, body, updates, sent, failures, runs, driver, dryRun, limit, par,
                            processed, loaded, stop, batches, one, report, attempts>>

\* The process is killed while a driver runs.
Crash ==
  /\ driver # "none"
  /\ Exit("crashed")
  /\ UNCHANGED <<fixed, body, updates, sent, failures, disk, runs, loaded, report, attempts, finished>>

\* ------------------------------------------------------------ runOne.ts

OfType(type) == {w \in Catalog : w.type = type}

\* Mutant of GateClosed: the gate closes one widget later.
GateClosedLate(articleText) == countWidgets(articleText) > WidgetCap

\* Lines 22: the limit is checked on the original content only.
GateClosed(articleText) == countWidgets(articleText) >= WidgetCap

\* Lines 49-57: the lead_magnet widget is inserted into the original content.
HtmlWithBottom(articleText, leadmagnetResult) ==
  IF leadmagnetResult.placement_strategy \in {"bottom", "top"}
  THEN insertWidgetHtml(articleText, leadmagnetResult.best_widget_id,
                        getWidgetHtmlById(leadmagnetResult.best_widget_id).embed_html,
                        leadmagnetResult.cta_text,
                        leadmagnetResult.placement_strategy).html
  ELSE articleText

\* Lines 60-68: the webinar widget is inserted into the result of the previous step.
FinalHtml(articleText, htmlWithBottom, webinarResult) ==
  IF webinarResult.placement_strategy \in {"top", "bottom"}
  THEN insertWidgetHtml(htmlWithBottom, webinarResult.best_widget_id,
                        getWidgetHtmlById(webinarResult.best_widget_id).embed_html,
                        webinarResult.cta_text,
                        webinarResult.placement_strategy).html
  ELSE articleText

\* Lines 80-95: updatePostContent is called outside dry-run when the content differs.
OneWrites(dry, articleText, finalHtml) == ~dry /\ ~StrictEquals(Str(articleText), Str(finalHtml))

OneFrame == UNCHANGED <<fixed, body, updates, sent, failures, disk, runs, dryRun, limit, par, processed,
                        loaded, page, totalProcessed, stop, batches, batch, task, attempts,
                        finished>>

OneExitFrame == UNCHANGED <<fixed, disk, runs, loaded, attempts, finished>>

\* runOne starts: the arguments are read and getPost is called.
StartOne(id, dry) ==
  /\ Idle
  /\ runs < MaxRuns
  /\ runs' = runs + 1
  /\ driver' = "one"
  /\ pc' = "get"
  /\ dryRun' = dry
  /\ one' = [NoOne EXCEPT !.postId = id]
  /\ report' = [i \in PostIds |-> "none"]
  /\ attempts' = [i \in PostIds |-> 0]
  /\ finished' = {}
  /\ loaded' = {}
  /\ UNCHANGED <<fixed, body, updates, sent, failures, disk, limit, par, processed, page,
                 totalProcessed, stop, batches, batch, task>>

\* getPost returns: lines 17-34, the catalog (line 18), the gate and then the
\* first model call; when the catalog does not load main rejects at line 18.
OneGet ==
  /\ driver = "one"
  /\ pc = "get"
  /\ IF ~CatalogLoads
     THEN /\ Exit("exit1")
          /\ UNCHANGED <<body, updates, sent, failures, report>>
          /\ OneExitFrame
     ELSE IF GateClosed(body[one.postId])
     THEN /\ Exit("done")
          /\ report' = [report EXCEPT ![one.postId] = "unchanged"]
          /\ UNCHANGED <<body, updates, sent, failures>>
          /\ OneExitFrame
     ELSE /\ one' = [one EXCEPT !.articleText = body[one.postId]]
          /\ pc' = "pick1"
          /\ UNCHANGED <<driver, report>>
          /\ OneFrame

\* The webinar decision returns: lines 34-39, a missing widget id throws.
OnePickWebinar ==
  /\ driver = "one"
  /\ pc = "pick1"
  /\ \E webinarResult \in Decisions(OfType("webinar")) :
       IF ~WidgetKnown(webinarResult.best_widget_id)
       THEN /\ Exit("exit1")
            /\ UNCHANGED <<body, updates, sent, failures, report>>
            /\ OneExitFrame
       ELSE /\ pc' = "pick2"
            /\ one' = [one EXCEPT !.webinarResult = webinarResult]
            /\ UNCHANGED <<driver, report>>
            /\ OneFrame

\* The lead_magnet decision returns: lines 39-95 up to the updatePostContent call.
OnePickLeadmagnet ==
  /\ driver = "one"
  /\ pc = "pick2"
  /\ \E leadmagnetResult \in Decisions(OfType("lead_magnet")) :
       IF ~WidgetKnown(leadmagnetResult.best_widget_id)
       THEN /\ Exit("exit1")
            /\ UNCHANGED <<body, updates, sent, failures, report>>
            /\ OneExitFrame
       ELSE LET htmlWithBottom == HtmlWithBottom(one.articleText, leadmagnetResult)
                finalHtml == FinalHtml(one.articleText, htmlWithBottom, one.webinarResult)
            IN IF OneWrites(dryRun, one.articleText, finalHtml)
               THEN /\ one' = [one EXCEPT !.finalHtml = finalHtml]
                    /\ pc' = "upd"
                    /\ UNCHANGED <<driver, report>>
                    /\ OneFrame
               ELSE /\ Exit("done")
                    /\ report' = [report EXCEPT ![one.postId] =
                                    IF one.articleText = finalHtml THEN "unchanged" ELSE "changed"]
                    /\ UNCHANGED <<body, updates, sent, failures>>
                    /\ OneExitFrame

\* updatePostContent(postId, finalHtml) returns.
OneUpdate ==
  /\ driver = "one"
  /\ pc = "upd"
  /\ body' = [body EXCEPT ![one.postId] = StoredAfter(@, Str(one.finalHtml), FALSE)]
  /\ updates' = [updates EXCEPT ![one.postId] = @ + 1]
  /\ sent' = sent \cup {[driver |-> "one", dry |-> dryRun, kind |-> "string"]}
  /\ UNCHANGED failures
  /\ report' = [report EXCEPT ![one.postId] = "changed"]
  /\ Exit("done")
  /\ OneExitFrame

\* Mutant of OneThrows: the content computed so far is written before the exit.
OneThrowsAfterWrite ==
  /\ driver = "one"
  /\ pc \in {"get", "pick1", "pick2", "upd"}
  /\ Exit("exit1")
  /\ body' = [body EXCEPT ![one.postId] = one.articleText]
  /\ updates' = [updates EXCEPT ![one.postId] = @ + 1]
  /\ UNCHANGED <<sent, failures, report>>
  /\ OneExitFrame

\* An awaited call of runOne rejects: main().catch logs and exits with code 1.
OneThrows ==
  /\ driver = "one"
  /\ pc \in {"get", "pick1", "pick2", "upd"}
  /\ Exit("exit1")
  /\ UNCHANGED <<body, updates, sent, failures, report>>
  /\ OneExitFrame

\* ------------------------------------------------------------ llm.ts

\* A string of a model response is the sequence of its characters.  A Cyrillic
\* letter is written by its name: "cy:n" is the letter en, "CY:N" its capital.
Capitals == <<"T", "O", "P", "B", "M", "E", "N", "D", "CY:N", "CY:A", "CY:CH", "CY:K", "CY:O">>

Smalls == <<"t", "o", "p", "b", "m", "e", "n", "d", "cy:n", "cy:a", "cy:ch", "cy:k", "cy:o">>

\* Mutant of toLowerCase: the string is compared as it came.
toLowerCaseKeepsCase(s) == s

\* String.prototype.toLowerCase
toLowerCase(s) ==
  [i \in 1..Len(s) |->
     IF \E k \in 1..Len(Capitals) : Capitals[k] = s[i]
     THEN Smalls[CHOOSE k \in 1..Len(Capitals) : Capitals[k] = s[i]]
     ELSE s[i]]

\* String.prototype.includes
includes(s, sub) == \E i \in 0..(Len(s) - Len(sub)) : SubSeq(s, i + 1, i + Len(sub)) = sub

\* The values of the fields of a parsed response, other than strings.
Num(digits) == [kind |-> "number", val |-> digits]

Undefined == [kind |-> "undefined", val |-> <<>>]

\* The operand of raw || '' that makes it yield ''.
Falsy(v) ==
  \/ v.kind = "undefined"
  \/ v.kind = "string" /\ v.val = <<>>
  \/ v.kind = "number" /\ v.val = <<"0">>

Threw == [ok |-> FALSE, val |-> "-"]

Returned(v) == [ok |-> TRUE, val |-> v]

\* Lines 14-19.  (raw || '').toLowerCase() is a TypeError for a truthy value that
\* is not a string.
normalizePlacementStrategy(raw) ==
  IF ~Falsy(raw) /\ raw.kind # "string"
  THEN Threw
  ELSE LET val == IF Falsy(raw) THEN <<>> ELSE toLowerCase(raw.val)
       IN IF includes(val, <<"t", "o", "p">>) \/ includes(val, <<"cy:n", "cy:a", "cy:ch">>)
          THEN Returned("top")
          ELSE IF \/ includes(val, <<"b", "o", "t", "t", "o", "m">>)
                  \/ includes(val, <<"e", "n", "d">>)
                  \/ includes(val, <<"cy:k", "cy:o", "cy:n">>)
          THEN Returned("bottom")
          ELSE Threw

\* A response is [fence, parses, json]: the message content is wrapped in a
\* markdown fence or not, and what is inside is JSON text of an object or not.
NoJson == [best_widget_id |-> Undefined, placement_strategy |-> Undefined, cta_text |-> Undefined]

\* No call is in flight.
NoResponse == [fence |-> "-", parses |-> FALSE, json |-> NoJson]

\* Line 38: a leading ```json or ``` line and a trailing ``` are removed.
StripFence(text) == [text EXCEPT !.fence = "none"]

NoPick == [status |-> "none", best_widget_id |-> <<>>, placement_strategy |-> "-", cta_text |-> <<>>]

PickThrew == [NoPick EXCEPT !.status = "threw"]

\* Lines 36-55: what pickWidgetByContent does with the message content.
pickWidgetByContent(content) ==
  LET text == StripFence(content)
      json == text.json
      placement == normalizePlacementStrategy(json.placement_strategy)
  IN IF ~text.parses
     THEN PickThrew
     ELSE IF ~placement.ok
     THEN PickThrew
     ELSE IF json.best_widget_id.kind = "string" /\ json.cta_text.kind = "string"
     THEN [status |-> "returned", best_widget_id |-> json.best_widget_id.val,
           placement_strategy |-> placement.val, cta_text |-> json.cta_text.val]
     ELSE PickThrew

\* The model has answered: lines 36-55 run on the message content.
PickWidgetByContent ==
  /\ response # NoResponse
  /\ decision = NoPick
  /\ decision' = pickWidgetByContent(response)
  /\ UNCHANGED <<parser, cap, catalogOk, response, args, ret>>
  /\ UNCHANGED <<body, updates, sent, failures, disk, runs, driver, pc, dryRun, limit, par, processed,
                 loaded, page, totalProcessed, stop, batches, batch, task, one, report,
                 attempts, finished>>

\* ------------------------------------------------------------ calls of the engine

NoArgs == [html |-> NoHtml, widgetId |-> "-", widgetHtml |-> <<>>, ctaText |-> "-",
           position |-> "-"]

\* tree is a ghost field: the document $ holds at line 120, after the insertion.
NoRet == [status |-> "none", html |-> NoHtml, tree |-> <<>>,
          placement |-> [container |-> "-", position |-> "-", method |-> "-"]]

\* insertWidgetHtml is called with the arguments and returns.
InsertWidgetHtml ==
  /\ args # NoArgs
  /\ ret = NoRet
  /\ LET res == insertWidgetHtml(args.html, args.widgetId, args.widgetHtml, args.ctaText,
                                 args.position)
         cleaned == cleanWpPostContentMarkers(removeContactFormShortcodesAndForms(args.html))
         block == Block(args.widgetId, args.widgetHtml, args.ctaText, args.position)
     IN ret' = [status |-> "returned", html |-> res.html, placement |-> res.placement,
                tree |-> Placed(cleaned, block, args.position).nodes]
  /\ UNCHANGED <<parser, cap, catalogOk, response, decision, args>>
  /\ UNCHANGED <<body, updates, sent, failures, disk, runs, driver, pc, dryRun, limit, par, processed,
                 loaded, page, totalProcessed, stop, batches, batch, task, one, report,
                 attempts, finished>>

\* ------------------------------------------------------------ specification

Parsers == {"parse5", "htmlparser2"}

P1 == Leaf("p", "-")

T1 == Leaf("txt", "-")

S1 == Leaf("sig", "-")

\* The bodies the articles of the source start with.
InitBodies == {Html(<<P1, T1>>), Html(<<P1, S1>>)}

\* The bodies the single-article runs start with.
OneBodies ==
  { Html(<<P1, T1>>),
    Html(<<T1>>),
    Html(<<P1, S1>>),
    Html(<<S1, T1, S1>>),
    Html(<<T1, Article(<<P1, T1>>), T1>>),
    Html(<<Article(<<T1>>), Article(<<P1>>)>>),
    BodyHtml(<<T1, P1>>) }

\* The state before any run, for a source holding one of the given bodies and a
\* build whose loop bound is one of the given bounds.
InitProgram(bodies, bounds) ==
  /\ parser \in Parsers
  /\ cap \in bounds
  /\ catalogOk \in BOOLEAN
  /\ \E d \in bodies : body = [id \in PostIds |-> d]
  /\ updates = [id \in PostIds |-> 0]
  /\ sent = {}
  /\ failures = FALSE
  /\ disk = [valid |-> FALSE, processed |-> {}]
  /\ runs = 0
  /\ driver = "none"
  /\ pc = "idle"
  /\ dryRun = FALSE
  /\ limit = 1
  /\ par = 1
  /\ processed = {}
  /\ loaded = {}
  /\ page = 1
  /\ totalProcessed = 0
  /\ stop = FALSE
  /\ batches = <<>>
  /\ batch = {}
  /\ task = [id \in PostIds |-> NoTask]
  /\ one = NoOne
  /\ report = [id \in PostIds |-> "none"]
  /\ attempts = [id \in PostIds |-> 0]
  /\ finished = {}

InitWith(bodies) ==
  /\ InitProgram(bodies, {TotalCap})
  /\ response = NoResponse
  /\ decision = NoPick
  /\ args = NoArgs
  /\ ret = NoRet

Init == InitWith(InitBodies)

InitBatch == InitWith({Html(<<P1, T1>>)})

InitOne == InitWith(OneBodies)

BatchStep ==
  \/ \E dry \in BOOLEAN, lim \in 1..MaxLimit, p \in 1..MaxPar : StartBatch(dry, lim, p)
  \/ ListPosts
  \/ ListPostsFails
  \/ \E id \in PostIds : TaskGet(id)
  \/ \E id \in PostIds : TaskPick(id)
  \/ \E id \in PostIds : TaskUpdate(id)
  \/ \E id \in PostIds : TaskThrows(id)
  \/ BatchDone

OneStep ==
  \/ \E id \in PostIds, dry \in BOOLEAN : StartOne(id, dry)
  \/ OneGet
  \/ OnePickWebinar
  \/ OnePickLeadmagnet
  \/ OneUpdate
  \/ OneThrows

Next == BatchStep \/ OneStep \/ Crash

NextBatch == BatchStep \/ Crash

NextOne == OneStep \/ Crash

\* Runs of both drivers, in any order.
Spec == Init /\ [][Next]_vars

\* Runs of the batch orchestrator only.
SpecBatch == InitBatch /\ [][NextBatch]_vars

\* Runs of the single-article driver only.
SpecOne == InitOne /\ [][NextOne]_vars

\* The loop bound scaled to the number of articles of the modelled source.
CapScaled == 1

\* The steps of an orchestrator run whose content-source calls all return.
RunSteps ==
  \/ ListPosts
  \/ \E id \in PostIds : TaskGet(id)
  \/ \E id \in PostIds : TaskPick(id)
  \/ \E id \in PostIds : TaskUpdate(id)
  \/ \E id \in PostIds : ModelThrows(id)
  \/ BatchDone

NextReturns ==
  \/ \E dry \in BOOLEAN, lim \in 1..MaxLimit, p \in 1..MaxPar : StartBatch(dry, lim, p)
  \/ RunSteps

InitReturns ==
  /\ InitProgram({Html(<<P1, T1>>)}, {CapScaled, TotalCap})
  /\ response = NoResponse
  /\ decision = NoPick
  /\ args = NoArgs
  /\ ret = NoRet

\* Orchestrator runs against a source whose calls return and a process that is
\* not killed: every awaited call settles and its continuation runs.
SpecReturns == InitReturns /\ [][NextReturns]_vars /\ WF_vars(RunSteps)

\* The strings a model writes into placement_strategy.
StrTop == <<"t", "o", "p">>

StrNachalo == <<"cy:n", "cy:a", "cy:ch", "cy:a", "cy:l", "cy:o">>

StrTopBang == <<"T", "o", "p", "!", "!">>

StrBottom == <<"b", "o", "t", "t", "o", "m">>

StrKonec == <<"cy:k", "cy:o", "cy:n", "cy:e", "cy:c">>

StrEnd == <<"e", "n", "d">>

StrMiddle == <<"m", "i", "d", "d", "l", "e">>

StrTopOrBottom == <<"t", "o", "p", " ", "o", "r", " ", "b", "o", "t", "t", "o", "m">>

StrStop == <<"s", "t", "o", "p">>

StrWeekend == <<"w", "e", "e", "k", "e", "n", "d">>

StrUpperBottom == <<"B", "O", "T", "T", "O", "M">>

StrUpperKonec == <<"CY:K", "CY:O", "CY:N", "cy:e", "cy:c">>

PlacementStrings ==
  {StrTop, StrNachalo, StrTopBang, StrBottom, StrKonec, StrEnd, StrMiddle, StrTopOrBottom,
   StrStop, StrWeekend, StrUpperBottom, StrUpperKonec, <<>>}

\* The message contents a pickWidgetByContent call can receive.
Responses ==
  [fence : {"none", "json", "plain"},
   parses : {TRUE},
   json : [best_widget_id : {Str(<<"w", "1">>), Str(<<>>), Num(<<"7">>), Undefined},
           placement_strategy : {Str(p) : p \in PlacementStrings}
                                  \cup {Num(<<"7">>), Num(<<"0">>), Undefined},
           cta_text : {Str(<<"C", "l", "i", "c", "k", "!">>), Num(<<"7">>), Undefined}]]
  \cup [fence : {"none", "json", "plain"}, parses : {FALSE}, json : {NoJson}]

\* pickWidgetByContent on every message content.
InitLlm ==
  /\ InitProgram({Html(<<P1, T1>>)}, {TotalCap})
  /\ response \in Responses
  /\ decision = NoPick
  /\ args = NoArgs
  /\ ret = NoRet

SpecLlm == InitLlm /\ [][PickWidgetByContent]_vars

Hello == Leaf("p", "Hello")

HelloDoc == Html(<<Article(<<Hello>>)>>)

\* The documents insertWidgetHtml is called with.
InsertDocs ==
  OneBodies \cup
  { HelloDoc,
    Html(<<>>),
    BodyHtml(<<T1>>),
    Html(<<Leaf("sc", "-"), P1, Leaf("pc", "-")>>),
    Html(<<T1, Article(<<P1, Leaf("cf", "-"), T1>>), Leaf("pc", "-")>>),
    BodyHtml(<<P1, Article(<<T1>>)>>),
    Html(<<T1, P1, T1, P1>>),
    Html(<<Article(<<T1, P1, T1, P1>>)>>),
    Html(<<P1, Leaf("start", "w1"), Leaf("lead", ShortcodeText), Leaf("wid", "w1"),
           Leaf("end", "-")>>) }

\* The embed HTML a call is given: that of the catalog, alone or with a stale
\* artifact in it.
WidgetHtmls(widgetId) ==
  { EmbedHtml(widgetId),
    EmbedHtml(widgetId) \o <<Leaf("sc", "-")>>,
    <<Leaf("cf", "-")>> \o EmbedHtml(widgetId),
    EmbedHtml(widgetId) \o <<Leaf("pc", "-")>> }

\* insertWidgetHtml on every document, widget and position.
InitInsert ==
  /\ InitProgram({Html(<<P1, T1>>)}, {TotalCap})
  /\ response = NoResponse
  /\ decision = NoPick
  /\ \E w \in Catalog :
       args \in [html : InsertDocs, widgetId : {w.id}, widgetHtml : WidgetHtmls(w.id),
                 ctaText : CtaTexts \cup {ShortcodeText}, position : {"top", "bottom"}]
  /\ ret = NoRet

SpecInsert == InitInsert /\ [][InsertWidgetHtml]_vars

\* ------------------------------------------------------------ claims

Succeeded(id) == report[id] \in {"unchanged", "changed"}

\* The marked blocks of a body that were inserted for the given slot.
SlotCount(html, slot) ==
  Cardinality({i \in 1..Len(Flatten(html.nodes)) :
                 Flatten(html.nodes)[i].t = "start" /\ Flatten(html.nodes)[i].g = slot})

\* C1: after any sequence of completed runs of either driver, the stored body of
\* an article holds at most one marked block in the top slot and at most one in
\* the bottom slot.
C1_OneBlockPerSlot ==
  Idle => \A id \in PostIds :
            SlotCount(body[id], "top") <= 1 /\ SlotCount(body[id], "bottom") <= 1

\* C2: across orchestrator runs sharing one state store, crashes included,
\* updatePostContent is called at most once per article id.
C2_UpdateAtMostOnce == \A id \in PostIds : updates[id] <= 1

\* C3: over repeated single-article runs the countWidgets value of the stored
\* body never exceeds the cap of 2.
C3_CountWithinCap == \A id \in PostIds : countWidgets(body[id]) <= WidgetCap

\* C4: no article whose id was in the ProcessedSet loaded at the start of an
\* orchestrator run gets a task in that run.
C4_LoadedNeverDispatched ==
  \A id \in loaded : attempts[id] = 0 /\ task[id].pc = "none" /\ report[id] = "none"

C4_Witness ==
  /\ driver = "batch"
  /\ loaded = {1}
  /\ attempts[2] = 1
  /\ attempts[3] = 1

\* C5: a task that throws does not stop its siblings or the run: every task of a
\* completed batch has ended by itself, a run that ends without being killed has
\* completed every batch it dispatched, and at each checkpoint every article whose
\* task completed without error is in the persisted ProcessedSet.
C5_FailureIsolation ==
  /\ \A id \in finished : report[id] # "none"
  /\ pc \in {"done", "exit1"} => \A id \in PostIds : attempts[id] > 0 => id \in finished
  /\ pc \in {"list", "done", "exit1"} =>
       \A id \in PostIds : attempts[id] > 0 /\ Succeeded(id) => id \in disk.processed

C5_Witness ==
  /\ pc = "done"
  /\ report[1] = "failed"
  /\ report[2] = "changed"
  /\ report[3] = "changed"
  /\ finished = PostIds
  /\ disk.processed = {2, 3}

\* C6: a run started with --dry-run never calls updatePostContent.
C6_DryRunNeverUpdates ==
  /\ \A u \in sent : ~u.dry
  /\ dryRun => pc # "upd" /\ \A id \in PostIds : task[id].pc # "upd"

C6_Witness ==
  /\ dryRun
  /\ \E id \in PostIds : report[id] = "changed" /\ updates[id] = 0

C9_AllAttemptedProcessed == driver = "batch" => finished \subseteq processed

\* C9: after a batch completes, an id attempted in it is in ProcessedSet exactly
\* when its task succeeded.
C9_SucceededProcessed ==
  driver = "batch" => \A id \in finished : (id \in processed) = Succeeded(id)

C9_Witness ==
  /\ driver = "batch"
  /\ \E a \in finished, b \in finished :
       report[a] = "failed" /\ Succeeded(b) /\ b \in processed /\ a \notin processed

\* C10: an article whose task threw is not added to ProcessedSet by that run, in
\* memory or on disk, and no article gets a second task within one run.
C10_FailedNotProcessedNorRetried ==
  /\ \A id \in PostIds : report[id] = "failed" => id \notin processed /\ id \notin disk.processed
  /\ \A id \in PostIds : attempts[id] <= 1

C10_Witness ==
  /\ pc = "done"
  /\ report[1] = "failed"
  /\ attempts = [id \in PostIds |-> 1]
  /\ disk.processed = {2, 3}
  /\ runs = 1

\* The call has ended on a response that is valid JSON with string widget id and
\* lead text, so that its outcome is the outcome of normalizePlacementStrategy.
NormalizedOnly ==
  /\ decision.status # "none"
  /\ response.parses
  /\ response.json.best_widget_id.kind = "string"
  /\ response.json.cta_text.kind = "string"

RawPlacement == response.json.placement_strategy

\* C11: normalization ignores case and maps "top", "начало" and "Top!!" to top,
\* "bottom", "конец" and "end" to bottom, and fails on "middle".
C11_NormalizesSynonyms ==
  NormalizedOnly =>
    /\ RawPlacement \in {Str(StrTop), Str(StrNachalo), Str(StrTopBang)}
         => decision.status = "returned" /\ decision.placement_strategy = "top"
    /\ RawPlacement \in {Str(StrBottom), Str(StrKonec), Str(StrEnd), Str(StrUpperBottom),
                         Str(StrUpperKonec)}
         => decision.status = "returned" /\ decision.placement_strategy = "bottom"
    /\ RawPlacement = Str(StrMiddle) => decision.status = "threw"

C11_Witness ==
  /\ NormalizedOnly
  /\ RawPlacement = Str(StrTopBang)
  /\ decision.status = "returned"
  /\ decision.placement_strategy = "top"

\* C12: normalization never guesses: a string holding both a top token and a
\* bottom token ("top or bottom"), or holding a token only inside another word
\* ("stop", "weekend"), fails.
C12_NeverGuesses ==
  (NormalizedOnly /\ RawPlacement \in {Str(StrTopOrBottom), Str(StrStop), Str(StrWeekend)})
    => decision.status = "threw"

\* C13: a call returns a decision only for a response that parses and whose
\* widget id is a non-empty string, whose placement strategy is a string and
\* whose lead text is a string.
C13_WellFormedOnly ==
  decision.status = "returned" =>
    /\ response.parses
    /\ response.json.best_widget_id.kind = "string"
    /\ response.json.best_widget_id.val # <<>>
    /\ response.json.placement_strategy.kind = "string"
    /\ response.json.cta_text.kind = "string"

\* The block the call under way builds.
NewBlock == Block(args.widgetId, args.widgetHtml, args.ctaText, args.position)

ContainsBlock(nodes, block) ==
  \E i \in 0..(Len(nodes) - Len(block)) : SubSeq(nodes, i + 1, i + Len(block)) = block

\* C14: for input HTML with no article tag and no body tag, insertion at top
\* returns the block prepended at the document root and reports container root,
\* method prepend.
C14_RootPrepend ==
  (/\ ret.status = "returned"
   /\ args.position = "top"
   /\ ~args.html.wrap
   /\ ~HasArticle(args.html.nodes))
    => /\ ret.placement.container = "root"
       /\ ret.placement.method = "prepend"
       /\ SubSeq(ret.html.nodes, 1, Len(NewBlock)) = NewBlock

\* C15: for <article><p>Hello</p></article>, widget w1 and position top, the
\* returned html keeps the article element, which holds the first paragraph
\* followed at once by the marked block, and the method is afterFirstP.
C15_KeepsArticle ==
  (/\ ret.status = "returned"
   /\ args.html = HelloDoc
   /\ args.widgetId = "w1"
   /\ args.position = "top")
    => /\ ret.placement.method = "afterFirstP"
       /\ ret.html.nodes = <<Article(<<Hello>> \o NewBlock)>>

\* C19: the html a call returns holds the block the call built, in the container
\* the placement reports.
C19_BlockReturned ==
  ret.status = "returned" => ContainsBlock(ret.html.nodes, NewBlock)

\* The elements and texts of a document that are not stale artifacts, in
\* document order.
Content(nodes) == SelectSeq(Flatten(nodes), LAMBDA n : n.t \notin {"article", "sc", "cf", "pc"})

RECURSIVE IsSubsequence(_, _)
IsSubsequence(a, b) ==
  IF a = <<>> THEN TRUE
  ELSE IF b = <<>> THEN FALSE
  ELSE IF Head(a) = Head(b) THEN IsSubsequence(Tail(a), Tail(b))
  ELSE IsSubsequence(a, Tail(b))

\* C20: insertion only adds the block and removes stale artifacts: the content
\* of the input, outside the first article included, is still in the returned
\* html in the same order.
C20_ContentPreserved ==
  ret.status = "returned" => IsSubsequence(Content(args.html.nodes), Content(ret.html.nodes))

\* C16: in the single-article flow, when countWidgets of the fetched body is 2 or
\* more, the step that follows getPost makes no model call, computes no
\* insertion and calls no update, and the article is reported unchanged; a model
\* call or an update is only ever under way for a body below the cap.
C16_GateSkipsWork ==
  /\ [][(driver = "one" /\ pc = "get" /\ countWidgets(body[one.postId]) >= WidgetCap)
          => /\ pc' \notin {"pick1", "pick2", "upd"}
             /\ one'.finalHtml = NoHtml
             /\ body' = body /\ updates' = updates /\ sent' = sent
             /\ pc' = "done" => report'[one.postId] = "unchanged"]_vars
  /\ [](driver = "one" /\ pc \in {"pick1", "pick2", "upd"}
          => countWidgets(one.articleText) < WidgetCap)

C16_Witness ==
  /\ driver = "none"
  /\ pc = "done"
  /\ runs = 1
  /\ \E id \in PostIds :
       /\ countWidgets(body[id]) >= WidgetCap
       /\ report[id] = "unchanged"
       /\ updates[id] = 0

\* The page just fetched has no item, or no item that is not in processed.
PageExhausted ==
  \/ Len(listPosts(limit, page)) = 0
  \/ Len(ToProcess(listPosts(limit, page), processed, limit)) = 0

\* The condition on which the loop of main is left at the current position.
StopCondition ==
  \/ pc = "list" /\ PageExhausted
  \/ pc = "await" /\ totalProcessed + Cardinality(batch) >= cap

\* C17: for every --par and --limit of 1 or more and a source whose calls
\* return, an orchestrator run terminates; it ends exactly when the cap is
\* reached, a fetched page is empty or a fetched page has no unprocessed item,
\* and then no further page is fetched.
C17_TerminatesExactlyWhen ==
  /\ (driver = "batch") ~> (driver = "none" /\ pc = "done")
  /\ [][driver = "batch" /\ driver' = "none" => pc' = "done" /\ StopCondition]_vars
  /\ [][driver = "batch" /\ StopCondition /\ (pc = "list" \/ finished' # finished)
          => driver' = "none"]_vars
  /\ [](driver = "batch" => totalProcessed < cap)

C17_Witness ==
  /\ driver = "none"
  /\ pc = "done"
  /\ runs = 1
  /\ cap = CapScaled
  /\ attempts = [id \in PostIds |-> IF id <= CapScaled THEN 1 ELSE 0]
  /\ disk.valid

\* C18: when the widget catalog cannot be loaded, no content-source call is made
\* or under way, no model call is under way and the State Store is not written,
\* in either driver.
C18_NoWorkWithoutCatalog ==
  ~catalogOk =>
    /\ driver = "none"
    /\ \A id \in PostIds : updates[id] = 0
    /\ ~disk.valid

\* The tasks whose processPost call has not ended.
InFlight(tasks) == {id \in PostIds : tasks[id].pc \in {"get", "llm", "upd"}}

\* C21: the in-memory ProcessedSet is written only by the orchestrator's
\* sequential checkpoint step: no step taken while a task of the batch stays in
\* flight changes the set.
C21_ProcessedOnlyAtCheckpoint ==
  [][(/\ driver = "batch" /\ driver' = "batch"
      /\ \E id \in PostIds : id \in InFlight(task) /\ id \in InFlight(task'))
       => processed' = processed]_vars

\* C22: at every moment of an orchestrator run at most --par tasks are in flight
\* and every task that exists belongs to the one batch in flight; a batch starts
\* only when every task of the previous one has completed or failed.
C22_BoundedSequentialBatches ==
  /\ [](driver = "batch" =>
          /\ Cardinality(InFlight(task)) <= par
          /\ Cardinality(batch) <= par
          /\ {id \in PostIds : task[id].pc # "none"} \subseteq batch)
  /\ [][(driver = "batch" /\ driver' = "batch" /\ batch' # batch)
          => InFlight(task) = {}]_vars

C22_Witness ==
  /\ driver = "batch"
  /\ par = MaxPar
  /\ Cardinality(InFlight(task)) = MaxPar
  /\ batches = <<>>
  /\ limit = MaxLimit

\* The document the call under way inspects: the input after the two cleaning
\* calls of lines 71-72.
Inspected == cleanWpPostContentMarkers(removeContactFormShortcodesAndForms(args.html))

\* kids with the block right after their first paragraph.
AfterFirstParagraph(kids, after, block) ==
  \E k \in 1..Len(kids) :
    /\ IsP(kids[k])
    /\ \A j \in 1..(k - 1) : ~IsP(kids[j])
    /\ after = SubSeq(kids, 1, k) \o block \o SubSeq(kids, k + 1, Len(kids))

\* The first article of the document got the block as its first or as its last
\* children, and no node outside the articles changed.
FirstArticleGets(doc, tree, block, atEnd) ==
  /\ Len(tree) = Len(doc)
  /\ \A i \in 1..Len(doc) : ~IsArticle(doc[i]) => tree[i] = doc[i]
  /\ \E a \in 1..Len(doc) :
       /\ IsArticle(doc[a])
       /\ \A j \in 1..(a - 1) : ~IsArticle(doc[j])
       /\ IsArticle(tree[a])
       /\ tree[a].kids = (IF atEnd THEN doc[a].kids \o block ELSE block \o doc[a].kids)

Stale(n) == n.t \in {"sc", "cf", "pc"} \/ (n.t = "lead" /\ n.v = ShortcodeText)

\* C24: whatever the article body, the widget HTML and the lead text carry, the
\* html a call returns holds no contact-form shortcode, no contact-form markup
\* and no wp:post-content end-marker.
C24_NoStaleArtifacts ==
  ret.status = "returned" =>
    \A i \in 1..Len(Flatten(ret.html.nodes)) : ~Stale(Flatten(ret.html.nodes)[i])

RECURSIVE Depths(_, _)
\* The nesting depth of markers after each node of a sequence, starting from d.
Depths(nodes, d) ==
  IF nodes = <<>> THEN <<>>
  ELSE LET h == Head(nodes)
           e == IF h.t = "start" THEN d + 1 ELSE IF h.t = "end" THEN d - 1 ELSE d
       IN <<e>> \o Depths(Tail(nodes), e)

\* Every open marker is closed before the next one opens, and every close
\* marker closes one.
MarkersPaired(nodes) ==
  LET ds == Depths(Flatten(nodes), 0)
  IN /\ \A i \in 1..Len(ds) : ds[i] \in {0, 1}
     /\ ds # <<>> => ds[Len(ds)] = 0

\* C25: in a body produced by the insertions of the single-article flow the
\* inserted blocks are disjoint and their markers paired: no block lies between
\* the open and the close marker of another one.
C25_BlocksDisjoint == \A id \in PostIds : MarkersPaired(body[id].nodes)

\* C26: a --dry-run orchestrator run leaves the persisted State Store unchanged:
\* during and after the run the ProcessedSet on disk is the one loaded at its
\* start.
C26_DryRunKeepsStateStore ==
  (dryRun /\ pc \in {"list", "await", "done"}) => loadState(disk) = loaded

\* C27: the batch orchestrator applies the decision as the single-article flow
\* does: what it hands to update is an HTML string, and that html holds the
\* block built with the decision's lead text at the decision's position.
C27_BatchAppliesDecision ==
  \A id \in PostIds :
    task[id].pc = "upd" =>
      LET d == task[id].llmResult
          n == task[id].newHtml
          html == IF n.kind = "string" THEN n.val ELSE n.val.html
      IN /\ n.kind = "string"
         /\ ContainsBlock(html.nodes,
                          Block(d.best_widget_id, getWidgetHtmlById(d.best_widget_id).embed_html,
                                d.cta_text, d.placement_strategy))

\* C28: repeated complete orchestrator runs make progress: when no task has
\* failed, a run that started with some article outside the ProcessedSet has
\* dispatched at least one such article when it ends.
C28_RunsMakeProgress ==
  (driver = "none" /\ pc = "done" /\ ~failures /\ loaded # PostIds)
    => \E id \in PostIds \ loaded : attempts[id] > 0

\* C29: a single-article run writes atomically: update is called only by the
\* last step of a run, after both decisions, with the html the two insertions
\* returned, so at most once per invocation; a run that ends with a throw has called no
\* update and leaves the stored article as it was.
C29_OneWritesAtomically ==
  /\ [][(driver = "one" /\ (updates' # updates \/ body' # body))
          => /\ pc = "upd"
             /\ driver' = "none" /\ pc' = "done"
             /\ one.webinarResult # NoDecision
             /\ updates' = [updates EXCEPT ![one.postId] = @ + 1]
             /\ body' = [body EXCEPT ![one.postId] = one.finalHtml]]_vars
  /\ [][(driver = "one" /\ pc' = "exit1") => body' = body /\ updates' = updates]_vars

C29_Witness ==
  /\ driver = "none"
  /\ pc = "done"
  /\ runs = 1
  /\ \E id \in PostIds :
       /\ updates[id] = 1
       /\ report[id] = "changed"
       /\ SlotCount(body[id], "top") + SlotCount(body[id], "bottom") >= 2

\* C30: in an orchestrator run the number of articles dispatched never exceeds
\* the total-processed cap.
C30_DispatchedWithinCap == Cardinality({id \in PostIds : attempts[id] > 0}) <= cap

====
